---- MODULE Spec2Model ----
(***************************************************************************)
(* HeyGenClone: the extended wizard (src/src/app.py) and the HTTP helper   *)
(* (src/src/utils.py).  One render pass of main() is a run of the script   *)
(* from "idle" back to "idle"; the session dictionary st.session_state is  *)
(* the only state carried from one pass to the next.  The service wrappers *)
(* are call frames that main() starts and awaits.                          *)
(***************************************************************************)
EXTENDS Integers, Sequences, FiniteSets, TLC

VARIABLES session,   \* st.session_state: a dictionary, key -> value
          pc,        \* where main() is: "idle" between passes, "test" in
                     \* SpecCalls, "api" in SpecApi
          loc,       \* main()'s local variables that later lines read and
                     \* the control that started the pass (in SpecApi: the
                     \* locals of the generator call_api)
          frames,    \* one call frame per service wrapper
          ended,     \* how the last render pass ended
          uploaded_file,  \* what the st.file_uploader widget holds (its name)
          prev       \* history: the last step of main() (or direct call), the
                     \* session and the upload before it, the text box it
                     \* read, whether Clear Cache was pressed in it, the
                     \* session right after that button was handled, and in
                     \* runs with one control per pass the history of the pass

vars == <<session, pc, loc, frames, ended, uploaded_file, prev>>

-----------------------------------------------------------------------------
(* Values and bounded input domains *)

\* Python's None
None == "None"

\* names a user may upload
FileNames == {"a.mp4", "b.mp4"}

\* lengths of the extracted audio buffer, around the limit of recognize_speech
AudioSizes == {25 * 1024 * 1024, 25 * 1024 * 1024 + 1}

\* what the user may type over the displayed transcript / translation
TranscriptEdits == {"hello"}
TranslationEdits == {"salut"}

\* what the user may type as target language
Languages == {"fr", "de"}

\* statuses an HTTP service may answer with
HttpStatuses == {200, 500}

\* the body of a non-200 answer
ErrorText == "server error"

\* settings.RETRIES: the number of attempts of the retry policy
RETRIES == 3

\* int(datetime.utcnow().timestamp()) at process start
UTC_TIMESTAMP == 1702012661

\* The widgets whose use starts a new run of the script.  A button is True
\* only in the run its click started and a form hands over its boxes only in
\* the run its submit button started; the last one stands for a re-run in
\* which no button is True (the select box of the voice preview, line 251).
Controls == {"upload", "clear_cache", "send_to_whisper", "submit_voice_clone",
             "submit_translation", "submit_voice_generation",
             "submit_lip_syncing", "select_voice_preview"}

\* the translation call that is counted over a session: upload, transcript
\* and target language
Watched == <<"translate", "a.mp4", "TEST", "fr">>

\* the count of the watched call stops here
MaxCalls == 2

Keys == {"UPLOADED_FILE", "RECOGNIZED_TEXT", "TRANSLATED_TEXT",
         "GENERATED_AUDIO", "VOICE_CLONE_ID"}

Wrappers == {"get_voices", "recognize_speech", "create_voice_clone",
             "translate_text", "generate_voice"}

\* wrappers decorated with @retry that are coroutine functions
Retried == {"recognize_speech", "create_voice_clone", "translate_text",
            "generate_voice"}

-----------------------------------------------------------------------------
(* Dictionary helpers *)

Has(s, k) == k \in DOMAIN s

Put(s, k, v) == [x \in DOMAIN s \cup {k} |-> IF x = k THEN v ELSE s[x]]

Del(s, ks) == [x \in DOMAIN s \ ks |-> s[x]]

EmptyDict == [x \in {} |-> None]

-----------------------------------------------------------------------------
(* The external services, as functions of the request *)

\* the labels of a voice: the columns build_voices_dataframe shows
PlainLabels ==
    [k \in {"accent", "description", "age", "gender", "use case"} |->
        "label:" \o k]

\* labels that hold a key of the voice record itself
LabelsWithVoiceId ==
    [k \in DOMAIN PlainLabels \cup {"voice_id"} |->
        IF k = "voice_id" THEN "vid_from_label" ELSE PlainLabels[k]]

\* GET /v1/voices: the JSON body {"voices": [...]}
VoicesPayload ==
    <<[name |-> "Rachel", voice_id |-> "vid_rachel", category |-> "premade",
       preview_url |-> "url_rachel", labels |-> PlainLabels,
       fine_tuning |-> "ft_rachel"],
      [name |-> "Adam", voice_id |-> "vid_adam", category |-> "cloned",
       preview_url |-> "url_adam", labels |-> LabelsWithVoiceId,
       fine_tuning |-> "ft_adam"]>>

\* the same body with a voice that carries no "labels"
VoicesPayloadNoLabels ==
    <<VoicesPayload[1],
      [name |-> "Adam", voice_id |-> "vid_adam", category |-> "cloned",
       preview_url |-> "url_adam"]>>

\* bodies the voices endpoint may answer with
VoicesPayloads == {VoicesPayload, VoicesPayloadNoLabels}

\* POST /v1/voices/add: the JSON body's voice_id
ClonePayload == "vid_clone"

\* POST /v1/text-to-speech/<voice_id>: the audio bytes for a request
TextToSpeech(voice_id, text) == "mp3(" \o voice_id \o "," \o text \o ")"

\* chat completion: choices[0].message.content, with surrounding whitespace
ChatCompletion(src_text, dst_lang) == <<" ", dst_lang \o ":" \o src_text, "\n">>

\* str.strip() of a content <<leading blanks, body, trailing blanks>>
Strip(content) == content[2]

-----------------------------------------------------------------------------
(* utils.call_api and the retry policy *)

\* One iteration of the asynchronous generator call_api over one HTTP answer:
\* a status other than 200 raises RuntimeError, otherwise the body is yielded.
\* Its own @retry wraps only the creation of the generator object (call_api is
\* no coroutine function), so an error raised while iterating is not retried
\* at this level.
call_api(status, payload) ==
    IF status # 200
    THEN [raised |-> TRUE,
          value |-> "API call failed with status " \o ToString(status)
                      \o ": " \o ErrorText]
    ELSE [raised |-> FALSE, value |-> payload]

\* A wrapper's call frame while no call is in progress
IdleFrame == [state |-> "idle", args |-> <<>>, attempt |-> 0, net |-> 0,
              failures |-> 0, logged |-> 0, result |-> None, error |-> None]

\* A call frame at the start of a call with arguments args
NewFrame(args) == [IdleFrame EXCEPT !.state = "running", !.args = args,
                                    !.attempt = 1]

\* one request sent to the external service
Sent(f) == [f EXCEPT !.net = @ + 1]

Return(f, value) == [f EXCEPT !.state = "returned", !.result = value]

Raise(f, error) == [f EXCEPT !.state = "raised", !.error = error,
                             !.failures = @ + 1]

\* @retry(stop=stop_after_attempt(RETRIES), ..., reraise=True,
\*        retry_error_callback=logger.error) around a coroutine function, after
\* an attempt raised error: another attempt while attempts remain; after the
\* last one the callback logger.error is called and what it returns (None) is
\* returned to the caller.
retry(f, error) ==
    IF f.attempt < RETRIES
    THEN [f EXCEPT !.attempt = @ + 1, !.error = error, !.failures = @ + 1]
    ELSE [f EXCEPT !.state = "returned", !.result = None, !.error = error,
                   !.failures = @ + 1, !.logged = @ + 1]

-----------------------------------------------------------------------------
(* The service wrappers of app.py: a frame after one attempt *)

recognize_speech(f) == Return(f, "TEST")

\* translate_text without the check of the session at lines 87-88
translate_text_uncached(f, s, ok) ==
    IF ok
    THEN Return(Sent(f), Strip(ChatCompletion(f.args.src_text,
                                              f.args.dst_lang)))
    ELSE retry(Sent(f), "APIError")

\* translate_text if the stored translation were returned only when it is the
\* translation of the same text into the same language
translate_text_by_language(f, s, ok) ==
    IF Has(s, "TRANSLATED_TEXT")
       /\ s["TRANSLATED_TEXT"] = Strip(ChatCompletion(f.args.src_text,
                                                      f.args.dst_lang))
    THEN Return(f, s["TRANSLATED_TEXT"])
    ELSE IF ok
         THEN Return(Sent(f), Strip(ChatCompletion(f.args.src_text,
                                                   f.args.dst_lang)))
         ELSE retry(Sent(f), "APIError")

translate_text(f, s, ok) ==
    IF Has(s, "TRANSLATED_TEXT")
    THEN Return(f, s["TRANSLATED_TEXT"])
    ELSE IF ok
         THEN Return(Sent(f), Strip(ChatCompletion(f.args.src_text,
                                                   f.args.dst_lang)))
         ELSE retry(Sent(f), "APIError")

\* The dictionary voices keeps the order in which its keys were inserted,
\* and build_voices_dataframe walks it in that order: it is a sequence of
\* entries [key, value].
VoiceNames(voices) == {voices[i].key : i \in DOMAIN voices}

\* voices[name]
VoiceOf(voices, name) ==
    voices[CHOOSE i \in DOMAIN voices : voices[i].key = name].value

\* {voice["name"]: voice for voice in voice_list}: a name stands where it
\* first occurs, and the last voice of a name wins
VoicesByName(voice_list) ==
    LET firsts == {i \in DOMAIN voice_list :
                      \A j \in 1..(i - 1) :
                          voice_list[j].name # voice_list[i].name}
        last(n) == voice_list[CHOOSE i \in DOMAIN voice_list :
                                 /\ voice_list[i].name = n
                                 /\ \A j \in DOMAIN voice_list :
                                       voice_list[j].name = n => j <= i]
    IN [k \in 1..Cardinality(firsts) |->
          LET i == CHOOSE i \in firsts :
                      Cardinality({j \in firsts : j <= i}) = k
          IN [key |-> voice_list[i].name, value |-> last(voice_list[i].name)]]

\* lines 105-110 and utils.py 26-31: the request is sent and get_voices is
\* suspended until the answer arrives; other tasks run meanwhile
get_voices_request(f) == Sent(f)

\* lines 110-113: the answer has arrived
get_voices(f, status, voice_list) ==
    LET response == call_api(status, voice_list)
    IN IF response.raised
       THEN Raise(f, response.value)
       ELSE Return(f, VoicesByName(response.value))

create_voice_clone(f, status) ==
    IF status # 200
    THEN retry(Sent(f), "API call failed with status " \o ToString(status)
                          \o ": " \o ErrorText)
    ELSE Return(Sent(f), ClonePayload)

\* generate_voice without the check of the session at lines 146-147
generate_voice_uncached(f, s, status) ==
    LET response == call_api(status, TextToSpeech(f.args.voice_id,
                                                  f.args.text))
    IN IF response.raised
       THEN retry(Sent(f), response.value)
       ELSE Return(Sent(f), response.value)

\* generate_voice if the retry policy on call_api re-sent a refused request
\* itself: every failed attempt would cost RETRIES requests
generate_voice_nested_retry(f, s, status) ==
    IF Has(s, "GENERATED_AUDIO")
    THEN Return(f, s["GENERATED_AUDIO"])
    ELSE LET response == call_api(status, TextToSpeech(f.args.voice_id,
                                                       f.args.text))
         IN IF response.raised
            THEN retry([f EXCEPT !.net = @ + RETRIES], response.value)
            ELSE Return(Sent(f), response.value)

generate_voice(f, s, status) ==
    IF Has(s, "GENERATED_AUDIO")
    THEN Return(f, s["GENERATED_AUDIO"])
    ELSE LET response == call_api(status, TextToSpeech(f.args.voice_id,
                                                       f.args.text))
         IN IF response.raised
            THEN retry(Sent(f), response.value)
            ELSE Return(Sent(f), response.value)

Running(fn) == frames[fn].state = "running"

Finished(fn) == frames[fn].state \in {"returned", "raised"}

FrameStep(fn, f) ==
    /\ frames' = [frames EXCEPT ![fn] = f]
    /\ UNCHANGED <<session, pc, loc, ended, uploaded_file, prev>>

RecognizeSpeech ==
    /\ Running("recognize_speech")
    /\ FrameStep("recognize_speech", recognize_speech(frames["recognize_speech"]))

GetVoicesRequest ==
    /\ Running("get_voices")
    /\ frames["get_voices"].net = 0
    /\ FrameStep("get_voices", get_voices_request(frames["get_voices"]))

GetVoices ==
    /\ Running("get_voices")
    /\ frames["get_voices"].net = 1
    /\ \E status \in HttpStatuses, voice_list \in VoicesPayloads :
          FrameStep("get_voices",
                    get_voices(frames["get_voices"], status, voice_list))

CreateVoiceClone ==
    /\ Running("create_voice_clone")
    /\ \E status \in HttpStatuses :
          FrameStep("create_voice_clone",
                    create_voice_clone(frames["create_voice_clone"], status))

TranslateText ==
    /\ Running("translate_text")
    /\ \E ok \in BOOLEAN :
          FrameStep("translate_text",
                    translate_text(frames["translate_text"], session, ok))

GenerateVoice ==
    /\ Running("generate_voice")
    /\ \E status \in HttpStatuses :
          FrameStep("generate_voice",
                    generate_voice(frames["generate_voice"], session, status))

-----------------------------------------------------------------------------
(* main(): one render pass of the extended wizard *)

NoLocals == [voices |-> <<>>, translated_text |-> None,
             voice_name |-> None, control |-> None]

NoFrames == [w \in Wrappers |-> IdleFrame]

\* the history before anything has run
NoPass == [start |-> EmptyDict, same_file |-> FALSE, edited |-> FALSE,
           calls |-> 0]

NoHistory == [step |-> "init", session |-> EmptyDict, text |-> None,
              file |-> None, clear_cache |-> FALSE, cleared |-> EmptyDict,
              pass |-> NoPass]

\* the columns of the table of voices, line 54
Columns == {"name", "category", "age", "gender", "accent", "description",
            "use case"}

\* line 52: voice.update(voice.pop("labels")), for a voice that has labels
UpdateWithLabels(voice) ==
    [k \in (DOMAIN voice \ {"labels"}) \cup DOMAIN voice["labels"] |->
        IF k \in DOMAIN voice["labels"] THEN voice["labels"][k]
        ELSE voice[k]]

\* lines 52-53: the labels are merged and then "fine_tuning" is popped, be it
\* the voice's own entry or a label of that name
MergeLabels(voice) == Del(UpdateWithLabels(voice), {"fine_tuning"})

RECURSIVE RewriteVoices(_, _)
\* lines 51-53: the loop from the i-th entry of voices on.  voices.copy() is
\* shallow, so the records of the caller's voices are rewritten in place; the
\* loop stops at the first record without "labels" (that record untouched)
\* or, once its labels are merged, without "fine_tuning" (that record merged),
\* and the records before it stay rewritten.
RewriteVoices(voices, i) ==
    IF i > Len(voices)
    THEN [raised |-> FALSE, error |-> None, voices |-> voices]
    ELSE IF "labels" \notin DOMAIN voices[i].value
    THEN [raised |-> TRUE, error |-> "KeyError: 'labels'", voices |-> voices]
    ELSE IF "fine_tuning" \notin DOMAIN UpdateWithLabels(voices[i].value)
    THEN [raised |-> TRUE, error |-> "KeyError: 'fine_tuning'",
          voices |-> [voices EXCEPT
                         ![i].value = UpdateWithLabels(voices[i].value)]]
    ELSE RewriteVoices([voices EXCEPT
                           ![i].value = MergeLabels(voices[i].value)], i + 1)

\* lines 45-54: the body of build_voices_dataframe; line 54 selects the
\* columns of the table, a KeyError when one of them is in no record
build_voices_dataframe(voices) ==
    LET rewritten == RewriteVoices(voices, 1)
    IN IF rewritten.raised
       THEN rewritten
       ELSE IF Columns \subseteq
                  UNION {DOMAIN rewritten.voices[i].value :
                            i \in DOMAIN rewritten.voices}
            THEN rewritten
            ELSE [rewritten EXCEPT !.raised = TRUE,
                                   !.error = "KeyError: columns"]

\* lines 173-179 without the removal of the generated audio
reset_session_state_keeps_audio(s) ==
    Del(s, {"RECOGNIZED_TEXT", "TRANSLATED_TEXT"})

reset_session_state(s) ==
    Del(s, {"RECOGNIZED_TEXT", "TRANSLATED_TEXT", "GENERATED_AUDIO"})

\* lines 219-224: remember the upload's name, reset when it is another one
track_upload(s, name) ==
    LET s1 == IF ~Has(s, "UPLOADED_FILE") THEN Put(s, "UPLOADED_FILE", name)
              ELSE s
    IN IF Has(s1, "UPLOADED_FILE") /\ s1["UPLOADED_FILE"] # name
       THEN reset_session_state(s1)
       ELSE s1

\* lines 279-285 without the removal of the generated audio
edit_recognized_text_keeps_audio(s, src_text) ==
    IF src_text # s["RECOGNIZED_TEXT"]
    THEN Del(Put(s, "RECOGNIZED_TEXT", src_text), {"TRANSLATED_TEXT"})
    ELSE s

\* lines 279-285: the transcript box differs from the stored transcript
edit_recognized_text(s, src_text) ==
    IF src_text # s["RECOGNIZED_TEXT"]
    THEN Del(Put(s, "RECOGNIZED_TEXT", src_text),
             {"TRANSLATED_TEXT", "GENERATED_AUDIO"})
    ELSE s

\* lines 304-308 clearing the transcript's other dependants as well
edit_translated_text_cascades(s, dst_text) ==
    IF dst_text # s["TRANSLATED_TEXT"]
    THEN Del(Put(s, "TRANSLATED_TEXT", dst_text),
             {"GENERATED_AUDIO", "RECOGNIZED_TEXT"})
    ELSE s

\* lines 304-308: the translation box differs from the stored translation
edit_translated_text(s, dst_text) ==
    IF dst_text # s["TRANSLATED_TEXT"]
    THEN Del(Put(s, "TRANSLATED_TEXT", dst_text), {"GENERATED_AUDIO"})
    ELSE s

\* a button's value: free when any control may fire, otherwise True exactly
\* in the pass its click started
Pressed(control, name, value) ==
    control \in Controls => (value <=> control = name)

\* History of the pass, kept in runs with one control per pass: the session
\* the pass started with, whether its upload is the one of the pass before,
\* whether a text box has differed from its stored text so far, and how often
\* the watched translation call has been started in the session.
PassHistory(step, text, control, called) ==
    IF control \notin Controls THEN NoPass
    ELSE [start |-> IF step = "Render" THEN session ELSE prev.pass.start,
          same_file |-> IF step = "Render" THEN uploaded_file' = uploaded_file
                        ELSE prev.pass.same_file,
          edited |-> CASE step = "Render" -> FALSE
                       [] step = "Step4" ->
                            \/ prev.pass.edited
                            \/ text # session["RECOGNIZED_TEXT"]
                       [] step = "Step5" ->
                            \/ prev.pass.edited
                            \/ text # session["TRANSLATED_TEXT"]
                       [] OTHER -> prev.pass.edited,
          calls |-> IF called = Watched /\ prev.pass.calls < MaxCalls
                    THEN prev.pass.calls + 1 ELSE prev.pass.calls]

\* history of the step of main() that is being taken; called is the upstream
\* input of the service call the step starts, <<>> when it starts none
NoteCall(step, text, clear_cache, cleared, control, called) ==
    prev' = [step |-> step, session |-> session, text |-> text,
             file |-> uploaded_file, clear_cache |-> clear_cache,
             cleared |-> cleared,
             pass |-> PassHistory(step, text, control, called)]

NoteAll(step, text, clear_cache, cleared) ==
    NoteCall(step, text, clear_cache, cleared, loc.control, <<>>)

Note(step, text) == NoteAll(step, text, FALSE, session)

\* the pass is over: st.stop(), an uncaught exception, or the end of main()
EndPass(how) ==
    /\ pc' = "idle"
    /\ ended' = how
    /\ loc' = NoLocals
    /\ frames' = NoFrames

\* lines 187-241: Clear Cache, Step 1, Step 2 up to the start of the two
\* tasks, in a pass started by control.  Unless the pass was started by the
\* uploader, the uploader holds what it held.
RenderAs(control) ==
    /\ pc = "idle"
    /\ \E clear_cache \in BOOLEAN, file \in FileNames \cup {None},
          send_to_whisper \in BOOLEAN, audio \in AudioSizes :
          LET s0 == IF clear_cache THEN reset_session_state(session)
                    ELSE session
              s1 == track_upload(s0, file)
          IN /\ Pressed(control, "clear_cache", clear_cache)
             /\ Pressed(control, "send_to_whisper", send_to_whisper)
             /\ control \in Controls \ {"upload"} => file = uploaded_file
             /\ uploaded_file' = file
             /\ NoteCall("Render", None, clear_cache, s0, control, <<>>)
             /\ IF file = None
                THEN /\ session' = reset_session_state(s0)
                     /\ EndPass("stopped")
                ELSE /\ session' = s1
                     /\ IF ~Has(s1, "RECOGNIZED_TEXT") /\ ~send_to_whisper
                        THEN EndPass("stopped")
                        ELSE /\ pc' = "gather"
                             /\ frames' = [NoFrames EXCEPT
                                   !["get_voices"] = NewFrame(<<>>),
                                   !["recognize_speech"] =
                                       NewFrame([audio |-> audio])]
                             /\ loc' = [NoLocals EXCEPT !.control = control]
                             /\ UNCHANGED ended

\* a pass in which any of the controls may fire, several at once too
Render == RenderAs("any")

\* a pass started by one control
RenderOne == \E control \in Controls : RenderAs(control)

\* lines 243-246 going on as soon as recognize_speech has returned, without
\* waiting for get_voices
GatherJoin_first_done ==
    /\ pc = "gather"
    /\ frames["recognize_speech"].state = "returned"
    /\ session' = IF ~Has(session, "RECOGNIZED_TEXT")
                  THEN Put(session, "RECOGNIZED_TEXT",
                           frames["recognize_speech"].result)
                  ELSE session
    /\ loc' = [loc EXCEPT !.voices =
                  IF frames["get_voices"].state = "returned"
                  THEN frames["get_voices"].result ELSE <<>>]
    /\ frames' = NoFrames
    /\ pc' = "step3"
    /\ Note("GatherJoin", None)
    /\ UNCHANGED <<ended, uploaded_file>>

\* lines 243-246: both tasks returned; the transcript is stored if none is
GatherJoin ==
    /\ pc = "gather"
    /\ frames["get_voices"].state = "returned"
    /\ frames["recognize_speech"].state = "returned"
    /\ session' = IF ~Has(session, "RECOGNIZED_TEXT")
                  THEN Put(session, "RECOGNIZED_TEXT",
                           frames["recognize_speech"].result)
                  ELSE session
    /\ loc' = [loc EXCEPT !.voices = frames["get_voices"].result]
    /\ frames' = NoFrames
    /\ pc' = "step3"
    /\ Note("GatherJoin", None)
    /\ UNCHANGED <<ended, uploaded_file>>

\* line 243: a task raised, asyncio.gather raises it in main()
GatherRaise ==
    /\ pc = "gather"
    /\ \E w \in {"get_voices", "recognize_speech"} : frames[w].state = "raised"
    /\ EndPass("raised")
    /\ Note("GatherRaise", None)
    /\ UNCHANGED <<session, uploaded_file>>

\* lines 248-266: Step 3, the table of voices and the voice clone form.
\* build_voices_dataframe is under @st.cache_data, a cache of the whole
\* process that other sessions fill and that can be cleared: on a hit its body
\* does not run and voices stays as get_voices returned it.  A body that
\* raises caches nothing.
Step3 ==
    /\ pc = "step3"
    /\ \E cached \in BOOLEAN, submit_voice_clone \in BOOLEAN :
          LET built == build_voices_dataframe(loc.voices)
          IN /\ Pressed(loc.control, "submit_voice_clone", submit_voice_clone)
             /\ IF built.raised
                THEN /\ EndPass("raised")         \* KeyError at line 250
                     /\ UNCHANGED session
                ELSE /\ loc' = [loc EXCEPT !.voices =
                                   IF cached THEN loc.voices ELSE built.voices]
                     /\ IF submit_voice_clone
                        THEN /\ pc' = "clone"
                             /\ frames' = [frames EXCEPT
                                   !["create_voice_clone"] = NewFrame(<<>>)]
                        ELSE /\ pc' = "step4"
                             /\ UNCHANGED frames
                     /\ UNCHANGED <<session, ended>>
    /\ Note("Step3", None)
    /\ UNCHANGED uploaded_file

\* line 266: the clone's identifier is stored
CloneResume ==
    /\ pc = "clone"
    /\ frames["create_voice_clone"].state = "returned"
    /\ session' = Put(session, "VOICE_CLONE_ID",
                      frames["create_voice_clone"].result)
    /\ frames' = NoFrames
    /\ pc' = "step4"
    /\ Note("CloneResume", None)
    /\ UNCHANGED <<loc, ended, uploaded_file>>

\* lines 268-288: Step 4, the translation form, up to the call of translate_text
Step4 ==
    /\ pc = "step4"
    /\ \E src_text \in {session["RECOGNIZED_TEXT"]} \cup TranscriptEdits,
          dst_lang \in Languages, submit_translation \in BOOLEAN :
          /\ Pressed(loc.control, "submit_translation", submit_translation)
          /\ loc.control \in Controls \ {"submit_translation"}
                => src_text = session["RECOGNIZED_TEXT"]
          /\ NoteCall("Step4", src_text, FALSE, session, loc.control,
                IF /\ Has(session, "TRANSLATED_TEXT") \/ submit_translation
                   /\ ~Has(edit_recognized_text(session, src_text),
                           "TRANSLATED_TEXT")
                THEN <<"translate", uploaded_file, src_text, dst_lang>>
                ELSE <<>>)
          /\ IF ~Has(session, "TRANSLATED_TEXT") /\ ~submit_translation
             THEN /\ EndPass("stopped")
                  /\ UNCHANGED session
             ELSE /\ session' = edit_recognized_text(session, src_text)
                  /\ frames' = [frames EXCEPT !["translate_text"] =
                        NewFrame([src_text |-> src_text,
                                  dst_lang |-> dst_lang])]
                  /\ pc' = "translate"
                  /\ UNCHANGED <<loc, ended>>
    /\ UNCHANGED uploaded_file

\* lines 288-291: translate_text returned; its result is stored if none is
TranslateResume ==
    /\ pc = "translate"
    /\ frames["translate_text"].state = "returned"
    /\ session' = IF ~Has(session, "TRANSLATED_TEXT")
                  THEN Put(session, "TRANSLATED_TEXT",
                           frames["translate_text"].result)
                  ELSE session
    /\ loc' = [loc EXCEPT !.translated_text = frames["translate_text"].result]
    /\ frames' = NoFrames
    /\ pc' = "step5"
    /\ Note("TranslateResume", None)
    /\ UNCHANGED <<ended, uploaded_file>>

\* lines 293-311: Step 5, the voice form, up to the call of generate_voice
Step5 ==
    /\ pc = "step5"
    /\ \E dst_text \in {session["TRANSLATED_TEXT"]} \cup TranslationEdits,
          voice_name \in VoiceNames(loc.voices) \cup {None},
          submit_voice_generation \in BOOLEAN :
          /\ Pressed(loc.control, "submit_voice_generation",
                     submit_voice_generation)
          /\ loc.control \in Controls \ {"submit_voice_generation"}
                => dst_text = session["TRANSLATED_TEXT"]
          /\ Note("Step5", dst_text)
          /\ IF ~Has(session, "GENERATED_AUDIO") /\ ~submit_voice_generation
             THEN /\ EndPass("stopped")
                  /\ UNCHANGED session
             ELSE /\ session' = edit_translated_text(session, dst_text)
                  /\ IF voice_name \notin VoiceNames(loc.voices)
                     THEN EndPass("raised")      \* voices[None]: KeyError
                     ELSE /\ frames' = [frames EXCEPT !["generate_voice"] =
                                NewFrame([voice_id |->
                                   VoiceOf(loc.voices, voice_name).voice_id,
                                          text |-> loc.translated_text])]
                          /\ loc' = [loc EXCEPT !.voice_name = voice_name]
                          /\ pc' = "synth"
                          /\ UNCHANGED ended
    /\ UNCHANGED uploaded_file

\* lines 311-318 without the store of lines 313-318
SynthResume_no_store ==
    /\ pc = "synth"
    /\ frames["generate_voice"].state = "returned"
    /\ frames' = NoFrames
    /\ pc' = "step6"
    /\ Note("SynthResume", None)
    /\ UNCHANGED <<session, loc, ended, uploaded_file>>

\* lines 311-318: generate_voice returned; the record is stored if none is
SynthResume ==
    /\ pc = "synth"
    /\ frames["generate_voice"].state = "returned"
    /\ session' = IF ~Has(session, "GENERATED_AUDIO")
                  THEN Put(session, "GENERATED_AUDIO",
                           [audio |-> frames["generate_voice"].result,
                            name |-> loc.voice_name,
                            timestamp |-> UTC_TIMESTAMP])
                  ELSE session
    /\ frames' = NoFrames
    /\ pc' = "step6"
    /\ Note("SynthResume", None)
    /\ UNCHANGED <<loc, ended, uploaded_file>>

\* lines 320-335: Step 6, preview, download link and the last button.
\* create_download_link (lines 163-170) encodes the stored audio: for audio
\* None, data.encode() is an AttributeError, before the button exists.
Step6 ==
    /\ pc = "step6"
    /\ IF session["GENERATED_AUDIO"].audio = None
       THEN EndPass("raised")
       ELSE \E submit_lip_syncing \in BOOLEAN :
               /\ Pressed(loc.control, "submit_lip_syncing",
                          submit_lip_syncing)
               /\ EndPass(IF submit_lip_syncing THEN "returned"
                          ELSE "stopped")
    /\ Note("Step6", None)
    /\ UNCHANGED <<session, uploaded_file>>

Init ==
    /\ session = EmptyDict
    /\ pc = "idle"
    /\ loc = NoLocals
    /\ frames = NoFrames
    /\ ended = "init"
    /\ uploaded_file = None
    /\ prev = NoHistory

Next ==
    \/ Render
    \/ GatherJoin
    \/ GatherRaise
    \/ Step3
    \/ CloneResume
    \/ Step4
    \/ TranslateResume
    \/ Step5
    \/ SynthResume
    \/ Step6
    \/ RecognizeSpeech
    \/ GetVoicesRequest
    \/ GetVoices
    \/ CreateVoiceClone
    \/ TranslateText
    \/ GenerateVoice

Spec == Init /\ [][Next]_vars

\* The app as a browser drives it: every pass is started by one control.
NextOne ==
    \/ RenderOne
    \/ GatherJoin
    \/ GatherRaise
    \/ Step3
    \/ CloneResume
    \/ Step4
    \/ TranslateResume
    \/ Step5
    \/ SynthResume
    \/ Step6
    \/ RecognizeSpeech
    \/ GetVoicesRequest
    \/ GetVoices
    \/ CreateVoiceClone
    \/ TranslateText
    \/ GenerateVoice

SpecOne == Init /\ [][NextOne]_vars

-----------------------------------------------------------------------------
(* Direct calls of the wrappers, from any session *)

Pipeline == {"UPLOADED_FILE", "RECOGNIZED_TEXT", "TRANSLATED_TEXT",
             "GENERATED_AUDIO"}

Transcripts == {"TEST"} \cup TranscriptEdits

Translations == {Strip(ChatCompletion("TEST", "fr")), None}
                   \cup TranslationEdits

\* the identifiers a voice may carry, before and after its labels are merged
VoiceIds ==
    {VoicesPayload[i].voice_id : i \in DOMAIN VoicesPayload}
        \cup {MergeLabels(VoicesPayload[i]).voice_id :
                  i \in DOMAIN VoicesPayload}

\* sessions a wrapper may be called in: any subset of the pipeline's entries
TestSessions ==
    {Del([k \in Pipeline |->
            CASE k = "UPLOADED_FILE" -> u
              [] k = "RECOGNIZED_TEXT" -> r
              [] k = "TRANSLATED_TEXT" -> t
              [] k = "GENERATED_AUDIO" ->
                    [audio |-> TextToSpeech(v, "salut"), name |-> "Adam",
                     timestamp |-> UTC_TIMESTAMP]], ks) :
        u \in FileNames, r \in Transcripts, t \in Translations,
        v \in VoiceIds, ks \in SUBSET Pipeline}

Call(fn, args) ==
    /\ pc = "test"
    /\ frames = NoFrames
    /\ frames' = [NoFrames EXCEPT ![fn] = NewFrame(args)]
    /\ NoteAll("call", None, FALSE, session)
    /\ UNCHANGED <<session, pc, loc, ended, uploaded_file>>

CallRecognizeSpeech ==
    \E audio \in AudioSizes : Call("recognize_speech", [audio |-> audio])

CallTranslateText ==
    \E src_text \in Transcripts, dst_lang \in Languages :
        Call("translate_text", [src_text |-> src_text, dst_lang |-> dst_lang])

CallGetVoices == Call("get_voices", <<>>)

CallCreateVoiceClone == Call("create_voice_clone", <<>>)

CallGenerateVoice ==
    \E voice_id \in VoiceIds, text \in Translations :
        Call("generate_voice", [voice_id |-> voice_id, text |-> text])

\* the caller takes the result (or the exception)
CallOver ==
    /\ pc = "test"
    /\ \E w \in Wrappers : Finished(w)
    /\ frames' = NoFrames
    /\ UNCHANGED <<session, pc, loc, ended, uploaded_file, prev>>

InitCalls ==
    /\ session \in TestSessions
    /\ pc = "test"
    /\ loc = NoLocals
    /\ frames = NoFrames
    /\ ended = "init"
    /\ uploaded_file = None
    /\ prev = NoHistory

NextCalls ==
    \/ CallRecognizeSpeech
    \/ CallTranslateText
    \/ CallGetVoices
    \/ CallCreateVoiceClone
    \/ CallGenerateVoice
    \/ CallOver
    \/ RecognizeSpeech
    \/ GetVoicesRequest
    \/ GetVoices
    \/ CreateVoiceClone
    \/ TranslateText
    \/ GenerateVoice

SpecCalls == InitCalls /\ [][NextCalls]_vars

-----------------------------------------------------------------------------
(* utils.call_api on its own: the generator over one HTTP response *)

\* the longest body, in lines
MaxLines == 2

\* statuses a response may carry: 200, another 2xx, a 4xx and a 5xx
ApiStatuses == {200, 201, 404, 500}

ContentTypes == {"application/json", "audio/mpeg"}

\* a line of a body: <<leading blanks, text, trailing blanks and newline>>
Lines == {<<"", "a", "\n">>, <<" ", "b", " \n">>}

Bodies == UNION {[1..n -> Lines] : n \in 0..MaxLines}

Responses == [status : ApiStatuses, content_type : ContentTypes,
              body : Bodies]

RECURSIVE Text(_)
\* await resp.text(): the whole body, as it was sent
Text(body) ==
    IF body = <<>> THEN ""
    ELSE body[1][1] \o body[1][2] \o body[1][3] \o Text(Tail(body))

\* the message of the RuntimeError of line 33
ApiError(resp) ==
    "API call failed with status " \o ToString(resp.status) \o ": "
        \o Text(resp.body)

\* a check of the status that lets every status below 400 through
call_api_fails_from_400(resp) == resp.status >= 400

\* line 32: the response is refused, whatever the mode
call_api_fails(resp) == resp.status # 200

\* lines 34-42: everything the generator yields for an accepted response
call_api_items(resp, stream) ==
    IF stream
    THEN [i \in 1..Len(resp.body) |-> Strip(resp.body[i])]
    ELSE IF resp.content_type = "application/json"
         THEN <<"json(" \o Text(resp.body) \o ")">>
         ELSE <<"bytes(" \o Text(resp.body) \o ")">>

ApiStep(l) ==
    /\ pc = "api"
    /\ loc' = l
    /\ UNCHANGED <<session, pc, frames, ended, uploaded_file, prev>>

\* lines 27-33: the first __anext__() sends the request and gets the response
ApiSend ==
    /\ loc.state = "created"
    /\ IF call_api_fails(loc.resp)
       THEN ApiStep([loc EXCEPT !.state = "raised",
                                !.error = ApiError(loc.resp)])
       ELSE ApiStep([loc EXCEPT !.state = "open"])

\* lines 35-37, 40, 42: the next value is yielded to the caller
ApiNext ==
    /\ loc.state = "open"
    /\ Len(loc.yielded) < Len(call_api_items(loc.resp, loc.stream))
    /\ ApiStep([loc EXCEPT !.yielded = Append(@,
           call_api_items(loc.resp, loc.stream)[Len(loc.yielded) + 1])])

\* the generator returns: StopAsyncIteration
ApiStop ==
    /\ loc.state = "open"
    /\ Len(loc.yielded) = Len(call_api_items(loc.resp, loc.stream))
    /\ ApiStep([loc EXCEPT !.state = "exhausted"])

InitApi ==
    /\ session = EmptyDict
    /\ pc = "api"
    /\ loc \in [state : {"created"}, stream : BOOLEAN, resp : Responses,
                yielded : {<<>>}, error : {None}]
    /\ frames = NoFrames
    /\ ended = "init"
    /\ uploaded_file = None
    /\ prev = NoHistory

NextApi ==
    \/ ApiSend
    \/ ApiNext
    \/ ApiStop

SpecApi == InitApi /\ [][NextApi]_vars

\* what may stand before and after a part of an error message
Affixes ==
    {"", "API call failed with status ", ": "}
        \cup {": " \o Text(b) : b \in Bodies}
        \cup {"API call failed with status " \o ToString(n) \o ": " :
                  n \in ApiStatuses}

\* part occurs in message
Contains(message, part) ==
    \E before \in Affixes, after \in Affixes :
        message = before \o part \o after

-----------------------------------------------------------------------------
(* The claims *)

\* C1: a render pass that starts with all four pipeline entries stored and
\* whose upload has another name than the stored UploadedFile, or has no
\* upload, leaves none of the four entries in the session.
C1_ChangedUploadClearsAllFour ==
    (/\ prev.step = "Render"
     /\ Pipeline \subseteq DOMAIN prev.session
     /\ uploaded_file # prev.session["UPLOADED_FILE"])
    => DOMAIN session \cap Pipeline = {}

\* C2: from the moment a pass with an uploaded video is past Step 1, the
\* stored UploadedFile is the name of the video uploaded in that pass.
C2_StoredUploadIsLatest ==
    (prev.step \notin {"init", "call"} /\ uploaded_file # None)
    => (Has(session, "UPLOADED_FILE")
        /\ session["UPLOADED_FILE"] = uploaded_file)

\* C3: a synthesis request carries the text that is stored as TranslatedText
\* when it is sent, and stored audio was synthesized from the text stored as
\* TranslatedText.
C3_AudioFromCurrentTranslation ==
    /\ (pc = "synth" /\ frames["generate_voice"].net > 0)
       => frames["generate_voice"].args.text = session["TRANSLATED_TEXT"]
    /\ (Has(session, "GENERATED_AUDIO")
        /\ session["GENERATED_AUDIO"].audio # None)
       => /\ Has(session, "TRANSLATED_TEXT")
          /\ \E v \in VoiceIds :
                session["GENERATED_AUDIO"].audio
                   = TextToSpeech(v, session["TRANSLATED_TEXT"])

\* C4: once Step 4 went on with a transcript other than the stored one, and
\* for as long as translate_text is awaited (so before and while a new
\* translation is requested), the edited transcript is stored, TranslatedText
\* and GeneratedAudio are gone, and every other entry, UploadedFile among
\* them, is as it was.
C4_TranscriptEditInvalidates ==
    (/\ pc = "translate"
     /\ prev.step = "Step4"
     /\ prev.text # prev.session["RECOGNIZED_TEXT"])
    => /\ DOMAIN session
            = DOMAIN prev.session \ {"TRANSLATED_TEXT", "GENERATED_AUDIO"}
       /\ session["RECOGNIZED_TEXT"] = prev.text
       /\ \A k \in DOMAIN session \ {"RECOGNIZED_TEXT"} :
             session[k] = prev.session[k]
       /\ Has(session, "UPLOADED_FILE")

C4_Witness ==
    /\ pc = "translate"
    /\ prev.step = "Step4"
    /\ prev.text # prev.session["RECOGNIZED_TEXT"]
    /\ Has(prev.session, "TRANSLATED_TEXT")
    /\ Has(prev.session, "GENERATED_AUDIO")
    /\ frames["translate_text"].net > 0

\* C5: once Step 5 went on (to the synthesis or to an error) with a
\* translation other than the stored one, the edited text is stored as
\* TranslatedText, GeneratedAudio is gone and every other entry, UploadedFile
\* and RecognizedText among them, is as it was.
C5_TranslationEditClearsOnlyAudio ==
    (/\ prev.step = "Step5"
     /\ pc = "synth" \/ (pc = "idle" /\ ended = "raised")
     /\ prev.text # prev.session["TRANSLATED_TEXT"])
    => /\ DOMAIN session = DOMAIN prev.session \ {"GENERATED_AUDIO"}
       /\ session["TRANSLATED_TEXT"] = prev.text
       /\ \A k \in DOMAIN session \ {"TRANSLATED_TEXT"} :
             session[k] = prev.session[k]
       /\ Has(session, "UPLOADED_FILE")
       /\ Has(session, "RECOGNIZED_TEXT")

C5_Witness ==
    /\ prev.step = "Step5"
    /\ pc = "synth"
    /\ prev.text # prev.session["TRANSLATED_TEXT"]
    /\ Has(prev.session, "GENERATED_AUDIO")
    /\ ~Has(session, "GENERATED_AUDIO")
    /\ session["TRANSLATED_TEXT"] = prev.text

\* C6: when RecognizedText is stored, Recognize Speech returns the stored
\* RecognizedText and has sent nothing to the transcription service.
C6_RecognizeReturnsStored ==
    (frames["recognize_speech"].state = "returned"
        /\ Has(session, "RECOGNIZED_TEXT"))
    => /\ frames["recognize_speech"].result = session["RECOGNIZED_TEXT"]
       /\ frames["recognize_speech"].net = 0

\* C7: with no RecognizedText stored, Recognize Speech returns only for a
\* buffer of at most 25 * 1024 * 1024 bytes and then has called the
\* transcription service; for a larger buffer it halts and does not return.
C7_SizeGate ==
    (frames["recognize_speech"].state = "returned"
        /\ ~Has(session, "RECOGNIZED_TEXT"))
    => /\ frames["recognize_speech"].args.audio <= 25 * 1024 * 1024
       /\ frames["recognize_speech"].net = 1

\* C8: every wrapper, List Voices included, is retried: none raises before
\* RETRIES attempts have failed, so a call whose first answer is not 200 and
\* whose second would be 200 returns.
C8_EveryWrapperRetried ==
    \A w \in Wrappers :
        frames[w].state = "raised" => frames[w].failures = RETRIES

\* C9: when all RETRIES attempts of Translate Text, Create Voice Clone or
\* Generate Voice have failed, the wrapper raises (it returns nothing) and the
\* failure has been logged exactly once.
C9_ExhaustionRaises ==
    \A w \in {"translate_text", "create_voice_clone", "generate_voice"} :
        frames[w].failures = RETRIES
        => (frames[w].state = "raised" /\ frames[w].logged = 1)

\* C10: called with any source text and target language while TranslatedText
\* is stored, Translate Text sends nothing to the chat-completion service,
\* leaves the session as it was and returns the stored TranslatedText.
C10_TranslateIdempotent ==
    (frames["translate_text"].state # "idle"
        /\ Has(prev.session, "TRANSLATED_TEXT")
        /\ prev.step = "call")
    => /\ frames["translate_text"].net = 0
       /\ frames["translate_text"].failures = 0
       /\ frames["translate_text"].state # "raised"
       /\ session = prev.session
       /\ frames["translate_text"].state = "returned"
          => frames["translate_text"].result = prev.session["TRANSLATED_TEXT"]

C10_Witness ==
    /\ prev.step = "call"
    /\ frames["translate_text"].state = "returned"
    /\ Has(prev.session, "TRANSLATED_TEXT")
    /\ frames["translate_text"].result = prev.session["TRANSLATED_TEXT"]
    /\ frames["translate_text"].args.src_text \in TranscriptEdits
    /\ Has(session, "RECOGNIZED_TEXT")
    /\ frames["translate_text"].args.src_text # session["RECOGNIZED_TEXT"]

\* C11: called with any voice identifier and text while GeneratedAudio is
\* stored, Generate Voice sends nothing to the text-to-speech service, leaves
\* the session as it was and returns the stored GeneratedAudio record.
C11_GenerateVoiceIdempotent ==
    (frames["generate_voice"].state # "idle"
        /\ Has(prev.session, "GENERATED_AUDIO")
        /\ prev.step = "call")
    => /\ frames["generate_voice"].net = 0
       /\ frames["generate_voice"].failures = 0
       /\ frames["generate_voice"].state # "raised"
       /\ session = prev.session
       /\ frames["generate_voice"].state = "returned"
          => frames["generate_voice"].result = prev.session["GENERATED_AUDIO"]

C11_Witness ==
    /\ prev.step = "call"
    /\ frames["generate_voice"].state = "returned"
    /\ Has(prev.session, "GENERATED_AUDIO")
    /\ frames["generate_voice"].result = prev.session["GENERATED_AUDIO"]
    /\ frames["generate_voice"].net = 0
    /\ frames["generate_voice"].result.audio
          # TextToSpeech(frames["generate_voice"].args.voice_id,
                         frames["generate_voice"].args.text)

\* C12: right after the Clear Cache button of a render pass has been handled,
\* none of UploadedFile, RecognizedText, TranslatedText and GeneratedAudio is
\* in the session.
C12_ClearCacheRemovesAllFour ==
    (prev.step = "Render" /\ prev.clear_cache)
    => DOMAIN prev.cleared \cap Pipeline = {}

\* C13: once the request of call_api has been answered with a status other
\* than 200, in streaming and in non-streaming mode alike, the generator has
\* raised, has yielded nothing, and its error message contains the status in
\* decimal and the text of the response body.
C13_Non200Raises ==
    (pc = "api" /\ loc.state # "created" /\ loc.resp.status # 200)
    => /\ loc.state = "raised"
       /\ loc.yielded = <<>>
       /\ Contains(loc.error, ToString(loc.resp.status))
       /\ Contains(loc.error, Text(loc.resp.body))

C13_Witness ==
    /\ pc = "api"
    /\ loc.state = "raised"
    /\ loc.stream
    /\ loc.resp.status = 201
    /\ Len(loc.resp.body) = MaxLines
    /\ loc.error = "API call failed with status 201: a\n b \n"

\* A pass started by one control in which the upload is the one of the pass
\* before, no text box has differed from its stored text and the session held
\* the entry under key when the pass began.
QuietPass(key) ==
    /\ prev.pass.same_file
    /\ ~prev.pass.edited
    /\ Has(prev.pass.start, key)

\* the first half of C14: a quiet pass sends no request for an artifact the
\* session held when the pass began
QuietPassSendsNothing ==
    /\ QuietPass("RECOGNIZED_TEXT") => frames["recognize_speech"].net = 0
    /\ QuietPass("TRANSLATED_TEXT") => frames["translate_text"].net = 0
    /\ QuietPass("GENERATED_AUDIO") => frames["generate_voice"].net = 0

\* C14 as stated, with one control per pass: a pass with the upload of the
\* pass before, no text box differing from its stored text and the needed
\* artifact stored at its start sends no transcription, translation or
\* synthesis request, and over the whole session the translation of one
\* upload, transcript and target language is requested at most once: when
\* translate_text is called for it a second time, no request is sent.
C14_AtMostOncePerInput ==
    /\ QuietPassSendsNothing
    /\ (/\ pc = "translate"
        /\ prev.pass.calls > 1
        /\ <<"translate", uploaded_file,
              frames["translate_text"].args.src_text,
              frames["translate_text"].args.dst_lang>> = Watched)
       => frames["translate_text"].net = 0

\* C14, amended, with one control per pass: a pass with the upload of the pass
\* before, no text box differing from its stored text and the needed artifact
\* stored at its start sends no transcription, translation or synthesis
\* request; and whenever a translation or synthesis request has been sent,
\* the session does not hold that artifact, so a call is repeated only after
\* its artifact was removed from the session.
C14_CallsOnlyWhileAbsent ==
    /\ QuietPassSendsNothing
    /\ frames["recognize_speech"].net = 0
    /\ frames["translate_text"].net > 0 => ~Has(session, "TRANSLATED_TEXT")
    /\ frames["generate_voice"].net > 0 => ~Has(session, "GENERATED_AUDIO")

\* a quiet pass has run translate_text and generate_voice to their ends, the
\* watched translation having been made once in the session
C14_Witness ==
    /\ pc = "synth"
    /\ QuietPass("TRANSLATED_TEXT")
    /\ QuietPass("GENERATED_AUDIO")
    /\ prev.pass.calls = 1
    /\ frames["generate_voice"].state = "returned"
    /\ frames["generate_voice"].net = 0
    /\ frames["generate_voice"].result = session["GENERATED_AUDIO"]

\* C15: a transcript that is stored when an interaction ends is still stored,
\* unchanged, once Step 1 of the next interaction has run, when that
\* interaction has the same uploaded video and Clear Cache is not pressed in
\* it; so the pass gets to Step 4 without the transcription button.
C15_TranscriptKeptForSameFile ==
    (/\ prev.step = "Render"
     /\ ~prev.clear_cache
     /\ uploaded_file # None
     /\ uploaded_file = prev.file
     /\ Has(prev.session, "RECOGNIZED_TEXT"))
    => /\ Has(session, "RECOGNIZED_TEXT")
       /\ session["RECOGNIZED_TEXT"] = prev.session["RECOGNIZED_TEXT"]
       /\ pc = "gather"

\* C16: while get_voices and recognize_speech are awaited together, in
\* whatever order they run, the session is not written; main() goes on to
\* Step 3, with RecognizedText stored, only when both tasks have returned; and
\* when it leaves the join otherwise a task has raised, the pass is over,
\* ended by the exception, and the session is as it was.
C16_JoinWaitsForBoth ==
    [][pc = "gather"
       => /\ pc' = "gather" => session' = session
          /\ pc' # "gather"
             => \/ /\ frames["get_voices"].state = "returned"
                   /\ frames["recognize_speech"].state = "returned"
                   /\ pc' = "step3"
                   /\ Has(session', "RECOGNIZED_TEXT")
                \/ /\ \E w \in {"get_voices", "recognize_speech"} :
                         frames[w].state = "raised"
                   /\ pc' = "idle"
                   /\ ended' = "raised"
                   /\ session' = session]_vars

C16_Witness ==
    /\ prev.step = "GatherJoin"
    /\ pc = "step3"
    /\ ~Has(prev.session, "RECOGNIZED_TEXT")
    /\ Has(session, "RECOGNIZED_TEXT")
    /\ VoiceNames(loc.voices) = {"Rachel", "Adam"}

\* C17: in every state of a render pass, translate_text has been called only
\* with RecognizedText stored, generate_voice only with TranslatedText stored,
\* and Step 6 is rendered only with GeneratedAudio stored.
C17_UpstreamBeforeCall ==
    /\ (pc # "test" /\ frames["translate_text"].state # "idle")
       => Has(session, "RECOGNIZED_TEXT")
    /\ (pc # "test" /\ frames["generate_voice"].state # "idle")
       => Has(session, "TRANSLATED_TEXT")
    /\ pc = "step6" => Has(session, "GENERATED_AUDIO")

C17_Witness ==
    /\ pc = "synth"
    /\ frames["generate_voice"].net > 0
    /\ Has(session, "TRANSLATED_TEXT")
    /\ session["TRANSLATED_TEXT"] \in TranslationEdits
    /\ ~Has(session, "GENERATED_AUDIO")

\* C18: one call of generate_voice sends at most RETRIES requests to the
\* text-to-speech endpoint, and at most one per attempt of generate_voice: the
\* retry policy on call_api adds no requests of its own.
C18_AtMostRetriesRequests ==
    /\ frames["generate_voice"].net <= RETRIES
    /\ frames["generate_voice"].net <= frames["generate_voice"].attempt

C18_Witness ==
    /\ prev.step = "call"
    /\ frames["generate_voice"].state = "returned"
    /\ frames["generate_voice"].net = RETRIES
    /\ frames["generate_voice"].failures = RETRIES
    /\ frames["generate_voice"].logged = 1

\* C19: when a render pass is over, whether it was halted, ran to its end or
\* was ended by an exception, the stored artifacts are a prefix of the chain:
\* GeneratedAudio stored implies TranslatedText stored, which implies
\* RecognizedText stored, which implies UploadedFile stored.
C19_StoredArtifactsArePrefix ==
    (pc = "idle" /\ ended \in {"stopped", "returned", "raised"})
    => /\ Has(session, "GENERATED_AUDIO") => Has(session, "TRANSLATED_TEXT")
       /\ Has(session, "TRANSLATED_TEXT") => Has(session, "RECOGNIZED_TEXT")
       /\ Has(session, "RECOGNIZED_TEXT") => Has(session, "UPLOADED_FILE")

C19_Witness ==
    /\ pc = "idle"
    /\ ended = "raised"
    /\ prev.step = "GatherRaise"
    /\ ~Has(session, "GENERATED_AUDIO")
    /\ Has(session, "TRANSLATED_TEXT")
    /\ Has(session, "RECOGNIZED_TEXT")
    /\ Has(session, "UPLOADED_FILE")

\* C20: when the Step 4 form goes on with TranslatedText stored and the
\* transcript box equal to RecognizedText, then whatever the target language
\* typed, another one than that of the stored translation included, no request
\* is sent to the translation service, translate_text returns the stored
\* translation, and the session (RecognizedText, TranslatedText and
\* GeneratedAudio among its entries) is as it was, also once the result has
\* been taken.
C20_LanguageChangeKeepsTranslation ==
    /\ (/\ pc = "translate"
        /\ prev.step = "Step4"
        /\ Has(prev.session, "TRANSLATED_TEXT")
        /\ prev.text = prev.session["RECOGNIZED_TEXT"])
       => /\ frames["translate_text"].net = 0
          /\ frames["translate_text"].state = "returned"
             => frames["translate_text"].result
                   = prev.session["TRANSLATED_TEXT"]
          /\ session = prev.session
    /\ (/\ prev.step = "TranslateResume"
        /\ Has(prev.session, "TRANSLATED_TEXT"))
       => /\ session = prev.session
          /\ pc = "step5" => loc.translated_text = session["TRANSLATED_TEXT"]

C20_Witness ==
    /\ pc = "translate"
    /\ prev.step = "Step4"
    /\ prev.text = "TEST"
    /\ frames["translate_text"].state = "returned"
    /\ frames["translate_text"].args.dst_lang = "de"
    /\ frames["translate_text"].net = 0
    /\ Has(session, "GENERATED_AUDIO")
    /\ session["RECOGNIZED_TEXT"] = "TEST"
    /\ session["TRANSLATED_TEXT"] = Strip(ChatCompletion("TEST", "fr"))
    /\ frames["translate_text"].result = Strip(ChatCompletion("TEST", "fr"))

====
